---- MODULE Spec2Model ----
(***************************************************************************)
(* Model of the ETOS environment provider: EnvironmentProvider.run and the *)
(* checkout loop of src/environment_provider/environment_provider.py,      *)
(* with the ProviderRegistry of src/environment_provider/lib/registry.py.  *)
(*                                                                         *)
(* The program is one sequential worker; pc is its position.  The outside  *)
(* world (configuration store, event repository, resource providers,       *)
(* announcement collaborators) answers nondeterministically.               *)
(*                                                                         *)
(* Conventions.  None (0) stands for Python's None wherever the value is   *)
(* otherwise a positive number.  `now` is the clock read by time.time(),   *)
(* measured from the moment the deadline in force was computed: the code   *)
(* only ever compares time.time() with a deadline derived from an earlier  *)
(* time.time() of the same call.  uuid.uuid4() and the identities handed   *)
(* out by providers are drawn from one counter of fresh values.            *)
(* The registry is addressed by the testrun id the provider was built      *)
(* with (environment_provider.py:103), which is always set in run().       *)
(*                                                                         *)
(* Spec and FairSpec are the program.  SpecRegistry is the registry taken  *)
(* alone (a registry with or without a testrun id, over any database),     *)
(* SpecInstructions is Instructions.execute of                             *)
(* src/environment_provider/execution_space/instructions.py taken alone;   *)
(* in each the rest of the model stands still.                             *)
(***************************************************************************)
EXTENDS Integers, Sequences, FiniteSets, TLC

\* ---------------------------------------------------------------- bounds
MaxExecutes == 2
MaxTests == 2
MaxIuts == 2
MaxConfigPolls == 2

\* ------------------------------------------------------ program constants
WAIT_FOR_IUT_TIMEOUT == 10
WAIT_FOR_EXECUTION_SPACE_TIMEOUT == 10
WAIT_FOR_LOG_AREA_TIMEOUT == 10
CHECKOUT_GRACE == 10
CHECKOUT_SLEEP == 5
MAIN_SUITE_TIMEOUT == 30
MAIN_SUITE_SLEEP == 5

None == 0
NoError == "none"

Runners == {"r1", "r2"}
SuiteNames == {"s1", "s2"}
Priorities == {1, 2}
ProviderKinds == {"iut", "log-area", "execution-space"}
StoreKeys == ProviderKinds \cup {"dataset"}

Min(a, b) == IF a < b THEN a ELSE b

Range(seq) == {seq[i] : i \in 1..Len(seq)}

RECURSIVE SumLen(_)
SumLen(groups) ==
  IF groups = <<>> THEN 0
  ELSE Len(Head(groups).unsplit_recipes) + SumLen(Tail(groups))

\* -------------------------------------------------------------- inputs
\* The tests of a suite: every list of at most MaxTests test runners, up to
\* the naming of the runners (the first test runs on "r1"); the k-th
\* suite's j-th test has id (k-1)*MaxTests + j.
RunnerLists ==
  {rl \in UNION {[1..n -> Runners] : n \in 0..MaxTests} :
     rl # <<>> => rl[1] = "r1"}

MkTests(k, rl) ==
  [j \in 1..Len(rl) |-> [id |-> (k - 1) * MaxTests + j, testRunner |-> rl[j]]]

MkSuite(k, name, prio, rl) ==
  [name |-> name, priority |-> prio, tests |-> MkTests(k, rl)]

\* ------------------------------------------------- create_test_suite_dict
NewGroup(test_runner, priority) ==
  [docker |-> test_runner, priority |-> priority,
   unsplit_recipes |-> <<>>, iuts |-> <<>>]

HasKey(groups, test_runner) ==
  \E g \in 1..Len(groups) : groups[g].docker = test_runner

KeyIndex(groups, test_runner) ==
  CHOOSE g \in 1..Len(groups) : groups[g].docker = test_runner

\* mutant: the test is put in front of the group's recipes
AddTest_in_front(groups, test, priority) ==
  LET gs == IF HasKey(groups, test.testRunner) THEN groups
            ELSE Append(groups, NewGroup(test.testRunner, priority))
      g == KeyIndex(gs, test.testRunner)
  IN [gs EXCEPT ![g].unsplit_recipes = <<test>> \o @]

\* test_runners.setdefault(test_runner, {...}); [...]["unsplit_recipes"].append(test)
AddTest(groups, test, priority) ==
  LET gs == IF HasKey(groups, test.testRunner) THEN groups
            ELSE Append(groups, NewGroup(test.testRunner, priority))
      g == KeyIndex(gs, test.testRunner)
  IN [gs EXCEPT ![g].unsplit_recipes = Append(@, test)]

RECURSIVE AddTests(_, _, _)
AddTests(groups, tests, priority) ==
  IF tests = <<>> THEN groups
  ELSE AddTests(AddTest(groups, Head(tests), priority), Tail(tests), priority)

HasSuite(ts, name) == \E k \in 1..Len(ts) : ts[k].name = name

SuiteIndex(ts, name) == CHOOSE k \in 1..Len(ts) : ts[k].name = name

\* test_suites.setdefault(test_suite.name, {}) and the loop over its tests
AddSuite(ts, suite) ==
  LET t1 == IF HasSuite(ts, suite.name) THEN ts
            ELSE Append(ts, [name |-> suite.name, test_runners |-> <<>>])
      k == SuiteIndex(t1, suite.name)
  IN [t1 EXCEPT ![k].test_runners = AddTests(@, suite.tests, suite.priority)]

RECURSIVE AddSuites(_, _)
AddSuites(ts, ss) ==
  IF ss = <<>> THEN ts ELSE AddSuites(AddSuite(ts, Head(ss)), Tail(ss))

create_test_suite_dict(ss) == AddSuites(<<>>, ss)

\* ------------------------------------------------------------- Splitter
EmptySuite == [recipes |-> <<>>, sub_suite_id |-> None,
               executor |-> None, log_area |-> None]

Remaining(g) == Len(g.unsplit_recipes) - Len(g.iuts)

\* k is served before j: higher priority, then more uncovered recipes,
\* then dictionary order.
Before(groups, k, j) ==
  \/ groups[k].priority > groups[j].priority
  \/ /\ groups[k].priority = groups[j].priority
     /\ \/ Remaining(groups[k]) > Remaining(groups[j])
        \/ Remaining(groups[k]) = Remaining(groups[j]) /\ k <= j

RECURSIVE assign_iuts(_, _)
assign_iuts(groups, iuts) ==
  LET open == {k \in 1..Len(groups) : Remaining(groups[k]) > 0}
  IN IF iuts = <<>> \/ open = {} THEN groups
     ELSE LET k == CHOOSE x \in open : \A y \in open : Before(groups, x, y)
          IN assign_iuts(
               [groups EXCEPT ![k].iuts =
                  Append(@, [iut |-> Head(iuts), suite |-> EmptySuite])],
               Tail(iuts))

RECURSIVE Slot(_, _, _, _)
\* The recipes of slot i of n: positions i, i+n, i+2n, ... in order.
Slot(recipes, p, i, n) ==
  IF p > Len(recipes) THEN <<>>
  ELSE IF ((p - 1) % n) + 1 = i
       THEN <<recipes[p]>> \o Slot(recipes, p + 1, i, n)
       ELSE Slot(recipes, p + 1, i, n)

split(group) ==
  LET n == Len(group.iuts)
  IN [group EXCEPT
        !.iuts = [i \in 1..n |->
                    [@[i] EXCEPT !.suite.recipes =
                       Slot(group.unsplit_recipes, 1, i, n)]],
        !.unsplit_recipes = <<>>]


\* ---------------------------------------------------------------- state
VARIABLES
  suites,                  \* testrun.spec.suites (input)
  etos_controller,         \* environment_provider_config.etos_controller (input)
  env_max,                 \* ETOS_MAX_PARALLEL_IUTS, None when unset (input)
  dataset_store,           \* what /testrun/{id}/provider/dataset holds (input)
  store,                   \* keys present under /testrun/{id}/provider
  store_valid,             \* whether what they hold satisfies the provider schema
  pc,                      \* position of the worker
  now, timeout,            \* the clock and the deadline in force
  polls,                   \* polls of is_configured made so far
  test_suites,             \* create_test_suite_dict()
  datasets,                \* the list _run pops one dataset from per suite
  suite_idx,               \* position of the for loop of _run
  test_runners,            \* the working set of checkout
  dataset,                 \* the dataset checkout was called with
  finished,                \* checkout's finished list
  r_idx, i_idx,            \* positions of the for loops of checkout
  triggered, main_suite,   \* _run's locals
  iut_provider, log_area_provider, execution_space_provider,
  PROVIDERS,               \* etos.config "PROVIDERS"
  error, result,           \* _run's error and run's return value
  fresh,                   \* next fresh identity
  events,                  \* lifecycle events sent, in order
  oplog,                   \* (operation, suite position) pairs performed
  sub_suites,              \* sub suites added to the TestSuite, in order
  created,                 \* provider instances created during the run
  checkins,                \* provider instances checkin_all was called on
  iut_request,             \* the last request made to the IUT provider
  iteration,               \* what the IUT request of the current loop turn gave
  assigned,                \* (test runner, IUT) pairs the splitter has produced
  resource_requests,       \* execution space and log area requests made
  checkin_errors,          \* providers whose checkin_all raised during cleanup
  etcd,                    \* paths that hold an entry in the ETCD database
  registry,                \* a ProviderRegistry built for an environment request
  call,                    \* the registry call in progress or last made
  datasubset,              \* Instructions.datasubset (the shared template)
  data,                    \* Instructions.data (the request's own values)
  executed                 \* what the calls of Instructions.execute returned

inputs == <<suites, etos_controller, env_max>>
config == <<store, store_valid, dataset_store>>
clock == <<now, timeout, polls>>
cursor == <<suite_idx, r_idx, i_idx>>
providers == <<iut_provider, log_area_provider, execution_space_provider, PROVIDERS>>
working == <<test_suites, datasets, test_runners, dataset, finished>>
locals == <<triggered, main_suite>>
ghosts == <<events, oplog, sub_suites, created, checkins, iut_request>>
ledger == <<iteration, assigned, resource_requests>>
lib_registry == <<etcd, registry, call>>
lib_instructions == <<datasubset, data, executed>>
unit == <<lib_registry, lib_instructions>>
aside == <<checkin_errors, unit>>
program == <<inputs, config, pc, clock, cursor, providers, working, locals,
             error, result, ghosts, ledger, checkin_errors>>
vars == <<inputs, config, pc, clock, cursor, providers, working, locals,
          error, result, fresh, ghosts, ledger, aside>>

\* The testruns of the model: one suite; two suites with distinct names
\* (the first with all its tests on one test runner); two suites of one
\* name (one entry of the test suite dictionary).
Testruns ==
  {<<MkSuite(1, "s1", 1, rl)>> : rl \in RunnerLists}
  \cup {<<MkSuite(1, "s1", 1, rl), MkSuite(2, "s2", 1, <<"r1">>)>> :
          rl \in {l \in RunnerLists : Range(l) \subseteq {"r1"}}}
  \cup {<<MkSuite(1, "s1", 1, rl), MkSuite(2, "s1", 2, <<"r2">>)>> :
          rl \in RunnerLists}

MkDataset(k, m) == [id |-> k, maximum_amount |-> m]

\* (dataset "maximum_amount", ETOS_MAX_PARALLEL_IUTS) as configured.
Limits == {<<None, None>>, <<None, MaxTests + 1>>, <<1, MaxTests + 1>>}

\* Whether the stored provider configuration satisfies the schema: what a
\* controller stores it has validated; stored otherwise it may violate the
\* schema (looked at for testruns of one suite with at most one test, the
\* suites playing no part).
Validities(controller, ss) ==
  IF ~controller /\ Len(ss) = 1 /\ Len(ss[1].tests) <= 1 THEN BOOLEAN ELSE {TRUE}

DatasetStores(m) ==
  {[is_list |-> FALSE, items |-> <<MkDataset(1, m)>>]}
  \cup {[is_list |-> TRUE, items |-> [k \in 1..n |-> MkDataset(k, m)]] : n \in 1..2}

ProgramInit ==
  /\ suites \in Testruns
  /\ etos_controller \in BOOLEAN
  /\ \E lim \in Limits :
       /\ env_max = lim[2]
       /\ dataset_store \in DatasetStores(lim[1])
  /\ store \in {{}, StoreKeys} \cup {StoreKeys \ {k} : k \in ProviderKinds}
  /\ store_valid \in IF store # {} THEN Validities(etos_controller, suites)
                    ELSE {TRUE}
  /\ pc = "run"
  /\ now = 0 /\ timeout = 0 /\ polls = 0
  /\ test_suites = <<>> /\ datasets = <<>>
  /\ suite_idx = 0 /\ r_idx = 0 /\ i_idx = 0
  /\ test_runners = <<>> /\ dataset = MkDataset(None, None) /\ finished = <<>>
  /\ triggered = None /\ main_suite = None
  /\ iut_provider = None /\ log_area_provider = None
  /\ execution_space_provider = None
  /\ PROVIDERS = <<>>
  /\ error = NoError /\ result = [returned |-> FALSE, error |-> NoError]
  /\ fresh = 1
  /\ events = <<>> /\ oplog = {} /\ sub_suites = <<>>
  /\ created = {} /\ checkins = <<>>
  /\ iut_request = [minimum_amount |-> None, maximum_amount |-> None,
                    total |-> None, suite |-> None, at |-> None]
  /\ iteration = [returned |-> <<>>, assigned |-> {}]
  /\ assigned = {} /\ resource_requests = {}
  /\ checkin_errors = {}

\* no registry call has been made
NoCall ==
  [op |-> "none", kind |-> "none", outcomes |-> <<>>, reads |-> {},
   done |-> FALSE, result |-> "None", entry |-> <<>>, raised |-> NoError]

\* the registry and the instructions taken alone are not in use
RegistryIdle ==
  /\ etcd = {}
  /\ registry = [suite_id |-> None, providers |-> <<>>]
  /\ call = NoCall

InstructionsIdle ==
  /\ datasubset = <<>> /\ data = <<>> /\ executed = <<>>

Init == ProgramInit /\ RegistryIdle /\ InstructionsIdle


\* ------------------------------------------------------------ helpers
Log(op) == oplog' = oplog \cup {[op |-> op, suite |-> suite_idx]}

\* A lifecycle event of the suite at hand; the description of an
\* UNSUCCESSFUL outcome is str(error).
Event(type, conclusion) ==
  [type |-> type, suite |-> suite_idx, conclusion |-> conclusion,
   description |-> IF conclusion = "UNSUCCESSFUL" THEN error ELSE NoError]

\* mutant: the outcome does not look at the error
Outcome_successful(err) == "SUCCESSFUL"

\* the conclusion of the outcome _run's finally builds
Outcome(err) == IF err = NoError THEN "SUCCESSFUL" ELSE "UNSUCCESSFUL"

\* ------------------------------------------------------------ registry
\* A path of the database is the sequence of its segments.
\* f"/testrun/{suite_id}/provider"
TestrunKey(id) == <<"testrun", id, "provider">>

\* f"/testrun/{identifier}/provider/{provider_type}"
ProviderKey(id, kind) == <<"testrun", id, "provider", kind>>

\* f"/environment/provider/{provider_type}/{id}"
RequestedKey(kind, id) == <<"environment", "provider", kind, id>>

\* f"/environment/provider/{provider_type}/default"
DefaultKey(kind) == RequestedKey(kind, "default")

\* ETCDPath(key).read_all(): the entries below the key
read_all(db, key) ==
  {path \in db : Len(key) <= Len(path) /\ SubSeq(path, 1, Len(key)) = key}

\* ETCDPath(key).read(): the entry at the key (named by its path), or
\* nothing (the empty path)
read(db, key) == IF key \in db THEN key ELSE <<>>

\* the loop of is_configured over the kinds: False at the first kind
\* without a default provider
RECURSIVE HasDefaults(_, _)
HasDefaults(db, kinds) ==
  IF kinds = <<>> THEN TRUE
  ELSE IF read_all(db, DefaultKey(Head(kinds))) = {} THEN FALSE
       ELSE HasDefaults(db, Tail(kinds))

\* mutant: without a suite id the default of one kind is enough
is_configured_by_one_default(suite_id, db) ==
  IF suite_id # None THEN read_all(db, TestrunKey(suite_id)) # {}
  ELSE \E kind \in ProviderKinds : read_all(db, DefaultKey(kind)) # {}

\* ProviderRegistry.is_configured
is_configured(suite_id, db) ==
  IF suite_id # None THEN read_all(db, TestrunKey(suite_id)) # {}
  ELSE HasDefaults(db, <<"execution-space", "iut", "log-area">>)

\* The testrun of run(): the registry is built with its id.
TestrunId == 1

\* what the database holds for it, given the keys under its provider path
TestrunEntries(keys) == {ProviderKey(TestrunId, k) : k \in keys}

\* ProviderRegistry._get_provider: the keys read, the entry returned and
\* the exception raised
_get_provider(reg, db, provider_type) ==
  IF provider_type \notin {"log-area", "execution-space", "iut"}
  THEN [reads |-> {}, entry |-> <<>>, raised |-> "ValueError"]
  ELSE IF reg.suite_id # None
       THEN [reads |-> {ProviderKey(reg.suite_id, provider_type)},
             entry |-> read(db, ProviderKey(reg.suite_id, provider_type)),
             raised |-> NoError]
       ELSE LET requested == RequestedKey(provider_type,
                                          reg.providers[provider_type])
                key == DefaultKey(provider_type)
            IN [reads |-> {key}, entry |-> read(db, key), raised |-> NoError]

\* dataset.get("maximum_amount", os.getenv("ETOS_MAX_PARALLEL_IUTS", TOTAL_TEST_COUNT))
maximum_amount(ds, env, total) ==
  IF ds.maximum_amount # None THEN ds.maximum_amount
  ELSE IF env # None THEN env
  ELSE total

checkout_timeout ==
  WAIT_FOR_IUT_TIMEOUT + WAIT_FOR_EXECUTION_SPACE_TIMEOUT
    + WAIT_FOR_LOG_AREA_TIMEOUT + CHECKOUT_GRACE

\* mutant: configure goes on when the registry is not configured
configure_never_raises(ready) == FALSE

\* if not self.registry.wait_for_configuration(): raise
configure_raises(ready) == ~ready

\* mutant: the loop condition admits the deadline itself
LoopContinues_inclusive(n, t) == n <= t

\* while time.time() < timeout
LoopContinues(n, t) == n < t

\* mutant: a group without IUTs is not skipped
NoIutsAssigned_never(group) == FALSE

\* if not test_runners[test_runner].get("iuts"): continue
NoIutsAssigned(group) == group.iuts = <<>>

\* mutant: the id is not drawn afresh for each IUT
NewSubSuiteId_fixed(f) == 1

\* suite["sub_suite_id"] = str(uuid.uuid4())
NewSubSuiteId(f) == f

\* mutant: a missing main suite is not noticed
MainSuiteMissing_never(ms) == FALSE

\* if main_suite is None: raise TimeoutError
MainSuiteMissing(ms) == ms = None

\* mutant: activity finished is sent on success only
SendsFinished_on_success(trig, err) == trig # None /\ err = NoError

\* if triggered is not None: send_activity_finished
SendsFinished(trig, err) == trig # None

\* mutant: the exception is recorded and not raised again
AfterFinally_swallow(err) == "suite"

\* mutant: cleanup runs after every suite, failed or not
AfterFinally_cleanup(err) == "except"

\* except Exception: error = exception; raise
AfterFinally(err) == IF err = NoError THEN "suite" ELSE "except"

\* mutant: cleanup checks nothing in
cleanup_nothing(registered, raising) == <<>>

\* mutant: the first check-in error ends cleanup
cleanup_aborts(registered, raising) ==
  IF \E i \in 1..Len(registered) : registered[i] \in raising
  THEN SubSeq(registered, 1,
              CHOOSE i \in 1..Len(registered) :
                /\ registered[i] \in raising
                /\ \A j \in 1..(i - 1) : registered[j] \notin raising)
  ELSE registered

\* for provider in etos.config.get("PROVIDERS"): try provider.checkin_all(),
\* except: pass.  The providers checkin_all is called on, in order, when
\* the call raises for those in `raising`.
RECURSIVE cleanup(_, _)
cleanup(registered, raising) ==
  IF registered = <<>> THEN <<>>
  ELSE <<Head(registered)>> \o cleanup(Tail(registered), raising)

\* mutant: the registry starts from the list it finds
reset_keeps(registered) == registered

\* ProviderRegistry.__init__: etos.config.set("PROVIDERS", [])
reset(registered) == <<>>

\* mutant: a provider that is None goes unnoticed
ProviderUnavailable_ignored(i, e, l) == FALSE

\* self.iut_provider.id, self.execution_space_provider.id,
\* self.log_area_provider.id: an AttributeError on None
ProviderUnavailable(i, e, l) == i = None \/ e = None \/ l = None

\* mutant: the execution space handed out before is bound again
checkout_an_execution_space_shared(f) == 1

\* wait_for_and_checkout_execution_spaces(1, 1)[0], f the instance handed out
checkout_an_execution_space(f) == f

\* wait_for_and_checkout_log_areas(1, 1)[0], f the instance handed out
checkout_a_log_area(f) == f

\* mutant: the group is not marked finished
MarkFinished_skip(done, test_runner) == done

\* finished.append(test_runner)
MarkFinished(done, test_runner) == Append(done, test_runner)

\* mutant: the loop is left whatever is left to assign
LoopBreaks_always(groups) == TRUE

\* if not test_runners: break
LoopBreaks(groups) == groups = <<>>

\* the (test runner, IUT) pairs of the working set
Pairs(groups) ==
  UNION {{<<groups[g].docker, groups[g].iuts[i].iut>> :
            i \in 1..Len(groups[g].iuts)} : g \in 1..Len(groups)}

\* mutant: the finished groups stay in the working set
PopFinished_keep(groups, done) == groups

\* for test_runner in finished: test_runners.pop(test_runner)
RECURSIVE PopFinished(_, _)
PopFinished(groups, done) ==
  IF groups = <<>> THEN <<>>
  ELSE IF \E d \in 1..Len(done) : done[d] = Head(groups).docker
       THEN PopFinished(Tail(groups), done)
       ELSE <<Head(groups)>> \o PopFinished(Tail(groups), done)

\* mutant: the sleep returns at once
sleep_returns_at_once(n, seconds) == n

\* time.sleep(seconds): the clock when the sleep that began at n returns
sleep(n, seconds) == n + seconds

\* mutant: the dataset is taken from the other end of the list
pop_last(ds) == ds[Len(ds)]

\* datasets.pop(0)
pop(ds) == Head(ds)

\* TestSuite.add: the sub suite of one (test runner, IUT) pair
add(name, test_runner, entry, priority) ==
  [suite |-> suite_idx, name |-> name, test_runner |-> test_runner,
   iut |-> entry.iut, sub_suite_id |-> entry.suite.sub_suite_id,
   recipes |-> entry.suite.recipes, executor |-> entry.suite.executor,
   log_area |-> entry.suite.log_area, priority |-> priority,
   announced |-> FALSE, event_sent |-> FALSE, serializable |-> TRUE]

\* An exception leaves _run's try block: error is set, the finally runs next.
RaiseInSuite(err) == error' = err /\ pc' = "finally"

\* An exception outside _run's for loop goes straight to run's handler.
RaiseInRun(err) == error' = err /\ pc' = "except"

\* ---------------------------------------------------------------- run
\* run, controller mode: configure_environment_provider writes the three
\* providers (each validated by ProviderSchema.model_validate before it is
\* written) and one dataset per suite of the testrun.
RunController ==
  /\ pc = "run" /\ etos_controller
  /\ store' = StoreKeys
  /\ store_valid' = TRUE
  /\ dataset_store' =
       [is_list |-> TRUE,
        items |-> [k \in 1..Len(suites) |->
                     MkDataset(k, dataset_store.items[1].maximum_amount)]]
  /\ pc' = "configure"
  /\ UNCHANGED <<ledger, aside, inputs, clock, cursor, providers, working, locals,
                 error, result, fresh, ghosts>>

\* ... or fails (testrun or provider resource not found).
RunControllerFails ==
  /\ pc = "run" /\ etos_controller
  /\ RaiseInRun("ConfigureFailed")
  /\ UNCHANGED <<ledger, aside, inputs, config, clock, cursor, providers, working, locals,
                 result, fresh, ghosts>>

RunStandalone ==
  /\ pc = "run" /\ ~etos_controller
  /\ pc' = "configure"
  /\ UNCHANGED <<ledger, aside, inputs, config, clock, cursor, providers, working, locals,
                 error, result, fresh, ghosts>>

\* The ETOS API stores the testrun's configuration at a time of its own;
\* what it stores satisfies the provider schema or does not.
StoreConfigured ==
  /\ pc \notin {"run", "done"} /\ store = {}
  /\ store' = StoreKeys
  /\ store_valid' \in Validities(etos_controller, suites)
  /\ UNCHANGED <<ledger, aside, inputs, dataset_store, pc, clock, cursor, providers, working,
                 locals, error, result, fresh, ghosts>>

\* wait_for_configuration: a poll of is_configured that finds nothing
ConfigurePoll ==
  /\ pc = "configure" /\ polls < MaxConfigPolls
  /\ ~is_configured(TestrunId, TestrunEntries(store))
  /\ polls' = polls + 1
  /\ UNCHANGED <<ledger, aside, inputs, config, pc, now, timeout, cursor, providers, working,
                 locals, error, result, fresh, ghosts>>

\* wait_for_configuration returns: true from a poll that finds the
\* configuration, false when the polls are exhausted; configure raises
\* EnvironmentProviderNotConfigured on false
ConfigureEnds ==
  /\ pc = "configure"
  /\ LET ready == polls < MaxConfigPolls
                   /\ is_configured(TestrunId, TestrunEntries(store))
     IN /\ ready \/ polls >= MaxConfigPolls
        /\ oplog' = IF ready
                    THEN oplog \cup {[op |-> "configured", suite |-> suite_idx]}
                    ELSE oplog
        /\ IF configure_raises(ready)
           THEN RaiseInRun("NotConfigured")
           ELSE pc' = "_run" /\ error' = error
  /\ polls' = 0
  /\ UNCHANGED <<ledger, aside, inputs, config, now, timeout, cursor, providers, working, locals,
                 result, fresh, events, sub_suites, created, checkins,
                 iut_request>>

\* --------------------------------------------------------------- _run
\* registry.dataset(): json.loads of the stored entry, None when absent
StoredDatasets ==
  IF "dataset" \in store THEN dataset_store
  ELSE [is_list |-> FALSE, items |-> <<MkDataset(None, None)>>]

\* create_test_suite_dict, registry.dataset(), the length assertion
RunBegin ==
  /\ pc = "_run"
  /\ ~StoredDatasets.is_list
       \/ Len(StoredDatasets.items) = Len(create_test_suite_dict(suites))
  /\ test_suites' = create_test_suite_dict(suites)
  /\ datasets' =
       IF StoredDatasets.is_list THEN StoredDatasets.items
       ELSE [k \in 1..Len(test_suites') |-> StoredDatasets.items[1]]
  /\ suite_idx' = 1
  /\ pc' = "suite"
  /\ UNCHANGED <<ledger, aside, inputs, config, clock, r_idx, i_idx, providers, test_runners,
                 dataset, finished, locals, error, result, fresh, ghosts>>

\* assert len(datasets) == len(test_suites) fails
RunBeginAssertionFails ==
  /\ pc = "_run"
  /\ StoredDatasets.is_list
  /\ Len(StoredDatasets.items) # Len(create_test_suite_dict(suites))
  /\ test_suites' = create_test_suite_dict(suites)
  /\ RaiseInRun("AssertionError")
  /\ UNCHANGED <<ledger, aside, inputs, config, clock, cursor, providers, datasets,
                 test_runners, dataset, finished, locals, result, fresh, ghosts>>

\* the for loop is exhausted: _run returns None, run returns {"error": None}
RunReturns ==
  /\ pc = "suite" /\ suite_idx > Len(test_suites)
  /\ result' = [returned |-> TRUE, error |-> NoError]
  /\ pc' = "done"
  /\ UNCHANGED <<ledger, aside, inputs, config, clock, cursor, providers, working, locals,
                 error, fresh, ghosts>>

\* one suite, not as controller: wait_for_main_suite's first request
SuiteBeginStandalone ==
  /\ pc = "suite" /\ suite_idx <= Len(test_suites) /\ ~etos_controller
  /\ triggered' = None
  /\ \E found \in BOOLEAN :
       /\ main_suite' = IF found THEN fresh ELSE None
       /\ fresh' = IF found THEN fresh + 1 ELSE fresh
  /\ now' = 0 /\ timeout' = MAIN_SUITE_TIMEOUT
  /\ test_runners' = test_suites[suite_idx].test_runners
  /\ Log("request_main_suite")
  /\ pc' = "wait_main"
  /\ UNCHANGED <<ledger, aside, inputs, config, polls, cursor, providers, test_suites,
                 datasets, dataset, finished, error, result, events,
                 sub_suites, created, checkins, iut_request>>

\* one suite, as controller: main_suite_id = os.getenv("REQUEST_ID")
SuiteBeginController ==
  /\ pc = "suite" /\ suite_idx <= Len(test_suites) /\ etos_controller
  /\ triggered' = None
  /\ main_suite' = fresh /\ fresh' = fresh + 1
  /\ test_runners' = test_suites[suite_idx].test_runners
  /\ pc' = "trigger"
  /\ UNCHANGED <<ledger, aside, inputs, config, clock, cursor, providers, test_suites,
                 datasets, dataset, finished, error, result, ghosts>>

\* wait_for_main_suite: one turn of the loop (request, then sleep 5)
WaitMainSuitePoll ==
  /\ pc = "wait_main" /\ main_suite = None /\ now < timeout
  /\ \E found \in BOOLEAN :
       /\ main_suite' = IF found THEN fresh ELSE None
       /\ fresh' = IF found THEN fresh + 1 ELSE fresh
  /\ now' = sleep(now, MAIN_SUITE_SLEEP)
  /\ Log("request_main_suite")
  /\ UNCHANGED <<ledger, aside, inputs, config, pc, timeout, polls, cursor, providers,
                 working, triggered, error, result, events, sub_suites,
                 created, checkins, iut_request>>

\* wait_for_main_suite returns, and _run raises when it returned None
WaitMainSuiteEnds ==
  /\ pc = "wait_main" /\ (main_suite # None \/ now >= timeout)
  /\ IF MainSuiteMissing(main_suite)
     THEN RaiseInSuite("MainSuiteTimeout")
     ELSE pc' = "trigger" /\ error' = error
  /\ UNCHANGED <<ledger, aside, inputs, config, clock, cursor, providers, working, locals,
                 result, fresh, ghosts>>

\* send_activity_triggered, send_activity_started
Trigger ==
  /\ pc = "trigger"
  /\ triggered' = fresh /\ fresh' = fresh + 1
  /\ events' = events \o <<Event("triggered", "none"), Event("started", "none")>>
  /\ pc' = "checkout"
  /\ UNCHANGED <<ledger, aside, inputs, config, clock, cursor, providers, working,
                 main_suite, error, result, oplog, sub_suites, created,
                 checkins, iut_request>>

\* _run's finally: send_activity_finished when triggered; then the next
\* suite, or the exception goes on to run's handler
Finally ==
  /\ pc = "finally"
  /\ events' =
       IF SendsFinished(triggered, error)
       THEN Append(events,
              Event("finished", Outcome(error)))
       ELSE events
  /\ pc' = AfterFinally(error)
  /\ suite_idx' = IF pc' = "suite" THEN suite_idx + 1 ELSE suite_idx
  /\ UNCHANGED <<ledger, aside, inputs, config, clock, r_idx, i_idx, providers, working,
                 locals, error, result, fresh, oplog, sub_suites, created,
                 checkins, iut_request>>

\* The providers whose checkin_all raises: none, or the first registered
\* (the one whose error would keep the others from being checked in).
CheckinFailures(registered) ==
  {{}} \cup {{registered[i]} : i \in {1} \cap DOMAIN registered}

\* run's except: cleanup, then the failure result
Except ==
  /\ pc = "except"
  /\ \E raising \in CheckinFailures(PROVIDERS) :
       /\ checkins' = checkins \o cleanup(PROVIDERS, raising)
       /\ checkin_errors' = raising \cap Range(checkins')
  /\ result' = [returned |-> TRUE, error |-> error]
  /\ pc' = "done"
  /\ UNCHANGED <<ledger, unit, inputs, config, clock, cursor, providers, working, locals,
                 error, fresh, events, oplog, sub_suites, created, iut_request>>


\* ----------------------------------------------------------- checkout
\* registry.iut_provider() etc.: an instance when the store has the
\* provider's configuration, else None
Instance(kind, id) == IF kind \in store THEN id ELSE None

Bump(kind) == IF kind \in store THEN 1 ELSE 0

RECURSIVE Registered(_)
Registered(ids) ==
  IF ids = <<>> THEN <<>>
  ELSE IF Head(ids) = None THEN Registered(Tail(ids))
       ELSE <<Head(ids)>> \o Registered(Tail(ids))

\* new_dataset (a new registry, the three providers in the order iut,
\* log area, execution space), the provider ids logged, the TestSuite,
\* and checkout_timeout()
CheckoutBegin ==
  /\ pc = "checkout"
  /\ dataset' = pop(datasets)
  /\ datasets' = Tail(datasets)
  /\ LET i == Instance("iut", fresh)
         l == Instance("log-area", fresh + Bump("iut"))
         e == Instance("execution-space", fresh + Bump("iut") + Bump("log-area"))
     IN /\ iut_provider' = i
        /\ log_area_provider' = l
        /\ execution_space_provider' = e
        /\ PROVIDERS' = reset(PROVIDERS) \o Registered(<<i, l, e>>)
        /\ fresh' = fresh + Bump("iut") + Bump("log-area") + Bump("execution-space")
        /\ created' = created \cup
             {[id |-> x, suite |-> suite_idx] : x \in {i, l, e} \ {None}}
        /\ IF ProviderUnavailable(i, e, l)
           THEN RaiseInSuite("AttributeError")
           ELSE pc' = "loop" /\ error' = error
  /\ finished' = <<>>
  /\ now' = 0 /\ timeout' = checkout_timeout
  /\ Log("new_dataset")
  /\ UNCHANGED <<ledger, aside, inputs, config, polls, cursor, test_suites, test_runners,
                 locals, result, events, sub_suites, checkins, iut_request>>

\* the while loop's else: the deadline has passed
LoopTimeout ==
  /\ pc = "loop" /\ ~LoopContinues(now, timeout)
  /\ RaiseInSuite("CheckoutTimeout")
  /\ UNCHANGED <<ledger, aside, inputs, config, clock, cursor, providers, working, locals,
                 result, fresh, ghosts>>

\* the request for one execution space or log area, for the IUT at hand
ResourceRequest(kind, iut, returned) ==
  [kind |-> kind, suite |-> suite_idx, iut |-> iut,
   minimum_amount |-> 1, maximum_amount |-> 1, returned |-> returned,
   just_assigned |-> iut \in iteration.assigned]

IutRequest ==
  [minimum_amount |-> 1,
   maximum_amount |-> maximum_amount(dataset, env_max, SumLen(test_runners)),
   total |-> SumLen(test_runners), suite |-> suite_idx, at |-> now]

\* one turn of the loop: wait_for_and_checkout_iuts returns n IUTs after
\* waiting d, and the splitter assigns them
LoopCheckoutIuts ==
  /\ pc = "loop" /\ LoopContinues(now, timeout)
  /\ iut_request' = IutRequest
  /\ \E n \in 0..Min(IutRequest.maximum_amount, MaxIuts),
        d \in {0, WAIT_FOR_IUT_TIMEOUT} :
       /\ test_runners' =
            assign_iuts(test_runners, [k \in 1..n |-> fresh + k - 1])
       /\ iteration' =
            [returned |-> [k \in 1..n |-> fresh + k - 1],
             assigned |-> {x[2] : x \in Pairs(test_runners') \ Pairs(test_runners)}]
       /\ fresh' = fresh + n
       /\ now' = now + d
  /\ assigned' = assigned \cup
       {[suite |-> suite_idx, test_runner |-> x[1], iut |-> x[2]] :
          x \in Pairs(test_runners') \ Pairs(test_runners)}
  /\ r_idx' = 1
  /\ pc' = "runner"
  /\ Log("checkout_iuts")
  /\ UNCHANGED <<resource_requests, aside, inputs, config, timeout, polls, suite_idx, i_idx, providers,
                 test_suites, datasets, dataset, finished, locals, error,
                 result, events, sub_suites, created, checkins>>

\* ... or the IUT provider gives up after its own timeout
LoopCheckoutIutsFails ==
  /\ pc = "loop" /\ LoopContinues(now, timeout)
  /\ iut_request' = IutRequest
  /\ now' = now + WAIT_FOR_IUT_TIMEOUT
  /\ RaiseInSuite("IutCheckoutFailed")
  /\ Log("checkout_iuts")
  /\ iteration' = [returned |-> <<>>, assigned |-> {}]
  /\ UNCHANGED <<assigned, resource_requests, aside, inputs, config, timeout, polls, cursor, providers, working,
                 locals, result, fresh, events, sub_suites, created, checkins>>

\* for test_runner in test_runners.keys(): skip a group without IUTs
NextRunner ==
  /\ pc = "runner"
  /\ IF r_idx > Len(test_runners)
     THEN pc' = "remove" /\ UNCHANGED <<r_idx, i_idx>>
     ELSE IF NoIutsAssigned(test_runners[r_idx])
          THEN pc' = "runner" /\ r_idx' = r_idx + 1 /\ i_idx' = i_idx
          ELSE pc' = "resources" /\ r_idx' = r_idx /\ i_idx' = 1
  /\ UNCHANGED <<ledger, aside, inputs, config, clock, suite_idx, providers, working, locals,
                 error, result, fresh, ghosts>>

\* one IUT of the group: its sub_suite_id, an execution space, a log area
CheckoutResources ==
  /\ pc = "resources" /\ i_idx <= Len(test_runners[r_idx].iuts)
  /\ test_runners' =
       [test_runners EXCEPT ![r_idx].iuts[i_idx].suite =
          [@ EXCEPT !.sub_suite_id = NewSubSuiteId(fresh),
                    !.executor = checkout_an_execution_space(fresh + 1),
                    !.log_area = checkout_a_log_area(fresh + 2)]]
  /\ fresh' = fresh + 3
  /\ i_idx' = i_idx + 1
  /\ oplog' = oplog \cup {[op |-> "checkout_execution_space", suite |-> suite_idx],
                          [op |-> "checkout_log_area", suite |-> suite_idx]}
  /\ LET iut == test_runners[r_idx].iuts[i_idx].iut
     IN resource_requests' = resource_requests \cup
          {ResourceRequest("execution_space", iut,
                           checkout_an_execution_space(fresh + 1)),
           ResourceRequest("log_area", iut, checkout_a_log_area(fresh + 2))}
  /\ UNCHANGED <<iteration, assigned, aside, inputs, config, pc, clock, suite_idx, r_idx, providers,
                 test_suites, datasets, dataset, finished, locals, error,
                 result, events, sub_suites, created, checkins, iut_request>>

\* ... the execution space provider fails
CheckoutExecutionSpaceFails ==
  /\ pc = "resources" /\ i_idx <= Len(test_runners[r_idx].iuts)
  /\ test_runners' =
       [test_runners EXCEPT ![r_idx].iuts[i_idx].suite.sub_suite_id =
          NewSubSuiteId(fresh)]
  /\ fresh' = fresh + 1
  /\ now' = now + WAIT_FOR_EXECUTION_SPACE_TIMEOUT
  /\ RaiseInSuite("ExecutionSpaceCheckoutFailed")
  /\ Log("checkout_execution_space")
  /\ resource_requests' = resource_requests \cup
       {ResourceRequest("execution_space",
                        test_runners[r_idx].iuts[i_idx].iut, None)}
  /\ UNCHANGED <<iteration, assigned, aside, inputs, config, timeout, polls, cursor, providers,
                 test_suites, datasets, dataset, finished, locals, result,
                 events, sub_suites, created, checkins, iut_request>>

\* ... the log area provider fails
CheckoutLogAreaFails ==
  /\ pc = "resources" /\ i_idx <= Len(test_runners[r_idx].iuts)
  /\ test_runners' =
       [test_runners EXCEPT ![r_idx].iuts[i_idx].suite =
          [@ EXCEPT !.sub_suite_id = NewSubSuiteId(fresh),
                    !.executor = checkout_an_execution_space(fresh + 1)]]
  /\ fresh' = fresh + 2
  /\ now' = now + WAIT_FOR_LOG_AREA_TIMEOUT
  /\ RaiseInSuite("LogAreaCheckoutFailed")
  /\ oplog' = oplog \cup {[op |-> "checkout_execution_space", suite |-> suite_idx],
                          [op |-> "checkout_log_area", suite |-> suite_idx]}
  /\ LET iut == test_runners[r_idx].iuts[i_idx].iut
     IN resource_requests' = resource_requests \cup
          {ResourceRequest("execution_space", iut,
                           checkout_an_execution_space(fresh + 1)),
           ResourceRequest("log_area", iut, None)}
  /\ UNCHANGED <<iteration, assigned, aside, inputs, config, timeout, polls, cursor, providers,
                 test_suites, datasets, dataset, finished, locals, result,
                 events, sub_suites, created, checkins, iut_request>>

\* splitter.split(test_runners[test_runner])
Split ==
  /\ pc = "resources" /\ i_idx > Len(test_runners[r_idx].iuts)
  /\ test_runners' = [test_runners EXCEPT ![r_idx] = split(@)]
  /\ i_idx' = 1
  /\ pc' = "add"
  /\ UNCHANGED <<ledger, aside, inputs, config, clock, suite_idx, r_idx, providers,
                 test_suites, datasets, dataset, finished, locals, error,
                 result, fresh, ghosts>>

\* test_suite.add and the announcement of one sub suite
AddSubSuite ==
  /\ pc = "add" /\ i_idx <= Len(test_runners[r_idx].iuts)
  /\ LET g == test_runners[r_idx]
         sub_suite == add(test_suites[suite_idx].name, g.docker,
                          g.iuts[i_idx], g.priority)
     IN sub_suites' = Append(sub_suites, [sub_suite EXCEPT !.announced = TRUE,
                                                           !.event_sent = TRUE])
  /\ i_idx' = i_idx + 1
  /\ UNCHANGED <<ledger, aside, inputs, config, pc, clock, suite_idx, r_idx, providers,
                 working, locals, error, result, fresh, events, oplog,
                 created, checkins, iut_request>>

\* ... the upload, the environment resource or the event cannot be sent
AnnounceFails ==
  /\ pc = "add" /\ i_idx <= Len(test_runners[r_idx].iuts)
  /\ LET g == test_runners[r_idx]
         sub_suite == add(test_suites[suite_idx].name, g.docker,
                          g.iuts[i_idx], g.priority)
     IN sub_suites' = Append(sub_suites, sub_suite)
  /\ RaiseInSuite("AnnounceFailed")
  /\ UNCHANGED <<ledger, aside, inputs, config, clock, cursor, providers, working, locals,
                 result, fresh, events, oplog, created, checkins, iut_request>>

\* Whether the environment defined event goes out for a sub suite that
\* json cannot serialize.  upload_sub_suite dumps the sub suite to a file
\* before anything is sent.  As controller nothing in this code serializes
\* it before the event: EnvironmentSpec and the Environment client accept
\* it or raise, and json.dumps runs in send_environment_events after
\* etos.events.send.
EventSentUnserializable(controller, accepted) == controller /\ accepted

\* ... the sub suite holds a value json cannot serialize
AnnounceUnserializable ==
  /\ pc = "add" /\ i_idx <= Len(test_runners[r_idx].iuts)
  /\ \E accepted \in IF etos_controller THEN BOOLEAN ELSE {FALSE} :
       LET g == test_runners[r_idx]
           sub_suite == add(test_suites[suite_idx].name, g.docker,
                            g.iuts[i_idx], g.priority)
       IN sub_suites' =
            Append(sub_suites,
                   [sub_suite EXCEPT
                      !.serializable = FALSE,
                      !.event_sent =
                         EventSentUnserializable(etos_controller, accepted)])
  /\ RaiseInSuite("TypeError")
  /\ UNCHANGED <<ledger, aside, inputs, config, clock, cursor, providers, working, locals,
                 result, fresh, events, oplog, created, checkins, iut_request>>

\* finished.append(test_runner)
RunnerFinished ==
  /\ pc = "add" /\ i_idx > Len(test_runners[r_idx].iuts)
  /\ finished' = MarkFinished(finished, test_runners[r_idx].docker)
  /\ r_idx' = r_idx + 1
  /\ pc' = "runner"
  /\ UNCHANGED <<ledger, aside, inputs, config, clock, suite_idx, i_idx, providers,
                 test_suites, datasets, test_runners, dataset, locals, error,
                 result, fresh, ghosts>>

\* remove the finished groups; leave the loop when none is left, else sleep
RemoveFinished ==
  /\ pc = "remove"
  /\ test_runners' = PopFinished(test_runners, finished)
  /\ IF LoopBreaks(test_runners')
     THEN pc' = "finally" /\ now' = now
     ELSE pc' = "loop" /\ now' = sleep(now, CHECKOUT_SLEEP)
  /\ UNCHANGED <<ledger, aside, inputs, config, timeout, polls, cursor, providers,
                 test_suites, datasets, dataset, finished, locals, error,
                 result, fresh, ghosts>>

Next ==
  \/ RunController \/ RunControllerFails \/ RunStandalone
  \/ StoreConfigured \/ ConfigurePoll \/ ConfigureEnds
  \/ RunBegin \/ RunBeginAssertionFails \/ RunReturns
  \/ SuiteBeginStandalone \/ SuiteBeginController
  \/ WaitMainSuitePoll \/ WaitMainSuiteEnds \/ Trigger
  \/ CheckoutBegin \/ LoopTimeout \/ LoopCheckoutIuts \/ LoopCheckoutIutsFails
  \/ NextRunner \/ CheckoutResources \/ CheckoutExecutionSpaceFails
  \/ CheckoutLogAreaFails \/ Split \/ AddSubSuite \/ AnnounceFails
  \/ AnnounceUnserializable
  \/ RunnerFinished \/ RemoveFinished
  \/ Finally \/ Except

Spec == Init /\ [][Next]_vars

\* The worker is one thread that runs run() to its return: whenever it has
\* a next step it takes one (every call it waits on returns or raises, and
\* the clock moves with every sleep).
FairSpec == Spec /\ WF_vars(Next)

\* ------------------------------------------- the registry taken alone
\* The program at rest, while the registry or the instructions are looked
\* at on their own.
ProgramIdle ==
  /\ ProgramInit
  /\ suites = <<MkSuite(1, "s1", 1, <<>>)>>
  /\ ~etos_controller /\ env_max = None
  /\ dataset_store = [is_list |-> FALSE, items |-> <<MkDataset(1, None)>>]
  /\ store = {} /\ store_valid

\* The paths the database of the model may hold: the providers of the
\* testrun, a provider of another testrun, and for every kind a default
\* provider and a provider "p1".
RegistryPaths ==
  {ProviderKey(TestrunId, k) : k \in ProviderKinds}
  \cup {ProviderKey(TestrunId + 1, "iut")}
  \cup {RequestedKey(k, id) : k \in ProviderKinds, id \in {"default", "p1"}}

\* The registries of the model: with_environment_request sets suite_id to
\* the request's identifier (None outside a testrun); the request asks for
\* the default providers, or for IUT provider "p1".
Registries ==
  {[suite_id |-> id,
    providers |-> [k \in ProviderKinds |->
                     IF k = "iut" THEN iut ELSE "default"]] :
     id \in {None, TestrunId}, iut \in {"default", "p1"}}

InitRegistry ==
  /\ ProgramIdle /\ InstructionsIdle
  /\ etcd \in SUBSET RegistryPaths
  /\ registry \in Registries
  /\ call = NoCall

\* wait_for_configuration is called
WaitForConfiguration ==
  /\ call.op = "none"
  /\ call' = [call EXCEPT !.op = "wait_for_configuration"]
  /\ UNCHANGED <<program, fresh, etcd, registry, lib_instructions>>

\* one result of the generator: is_configured is called, on the database
\* as it is by then (an entry may have been written since the last poll)
PollIsConfigured ==
  /\ call.op = "wait_for_configuration" /\ ~call.done
  /\ Len(call.outcomes) < MaxConfigPolls
  /\ \E written \in {{}} \cup {{path} : path \in RegistryPaths \ etcd} :
       /\ etcd' = etcd \cup written
       /\ LET configured == is_configured(registry.suite_id, etcd')
          IN call' = [call EXCEPT
                        !.outcomes = Append(@, configured),
                        !.done = configured,
                        !.result = IF configured THEN "True" ELSE @]
  /\ UNCHANGED <<program, fresh, registry, lib_instructions>>

\* the generator is exhausted: the last result is returned
WaitForConfigurationEnds ==
  /\ call.op = "wait_for_configuration" /\ ~call.done
  /\ Len(call.outcomes) >= MaxConfigPolls
  /\ call' = [call EXCEPT
                !.done = TRUE,
                !.result = IF call.outcomes = <<>> THEN "None"
                           ELSE IF call.outcomes[Len(call.outcomes)]
                                THEN "True" ELSE "False"]
  /\ UNCHANGED <<program, fresh, etcd, registry, lib_instructions>>

\* _get_provider is called for a kind, known or not
GetProvider ==
  /\ call.op = "none"
  /\ \E provider_type \in StoreKeys :
       LET got == _get_provider(registry, etcd, provider_type)
       IN call' = [call EXCEPT
                     !.op = "_get_provider", !.kind = provider_type,
                     !.reads = got.reads, !.entry = got.entry,
                     !.raised = got.raised, !.done = TRUE]
  /\ UNCHANGED <<program, fresh, etcd, registry, lib_instructions>>

NextRegistry ==
  \/ WaitForConfiguration \/ PollIsConfigured \/ WaitForConfigurationEnds
  \/ GetProvider

SpecRegistry == InitRegistry /\ [][NextRegistry]_vars

\* --------------------------------------- the instructions taken alone
\* A dict is a function from its keys.  dict.get(key, default)
Get(d, key, default) == IF key \in DOMAIN d THEN d[key] ELSE default

\* mutant: the keys the dict already has keep their values
update_missing(d, e) ==
  [k \in DOMAIN d \cup DOMAIN e |-> IF k \in DOMAIN d THEN d[k] ELSE e[k]]

\* d.update(e)
update(d, e) ==
  [k \in DOMAIN d \cup DOMAIN e |-> IF k \in DOMAIN e THEN e[k] ELSE d[k]]

\* "{}/sub_suite?id={}".format(provider, identifier), kept in its parts
SubSuiteUrl(provider, identifier) == <<provider, "/sub_suite?id=", identifier>>

\* mutant: the instructions are built in the template itself
TemplateAfter_shared(template, built) == built

\* What datasubset holds as instructions after a call that built `built`
\* from it: the call works on a deepcopy.
TemplateAfter(template, built) == template

\* Instructions.execute with uuid4() giving id: the exception raised and
\* the instructions returned
execute(subset, request, id) ==
  LET template == subset.instructions
      environment == update(template.environment,
                            Get(request, "environment", <<>>))
      parameters == update(template.parameters,
                           Get(request, "parameters", <<>>))
      image == Get(request, "image", template.image)
  IN IF "ETOS_ENVIRONMENT_PROVIDER" \notin DOMAIN environment
     THEN [raised |-> "KeyError", identifier |-> id,
           instructions |->
             [environment |-> environment, parameters |-> parameters,
              image |-> image, identifier |-> id]]
     ELSE [raised |-> NoError, identifier |-> id,
           instructions |->
             [environment |->
                update(environment,
                       [k \in {"SUB_SUITE_URL"} |->
                          SubSuiteUrl(environment["ETOS_ENVIRONMENT_PROVIDER"], id)]),
              parameters |-> parameters, image |-> image,
              identifier |-> id]]

\* a dict with the given keys, each value telling where it comes from
Dict(keys, origin) == [k \in keys |-> <<origin, k>>]

\* The templates of the model: instructions with an environment (with or
\* without ETOS_ENVIRONMENT_PROVIDER and a variable K), parameters (with or
\* without a parameter P) and an image.
Templates ==
  {[instructions |->
      [environment |-> Dict(e, "template"), parameters |-> Dict(q, "template"),
       image |-> "template"]] :
     e \in SUBSET {"ETOS_ENVIRONMENT_PROVIDER", "K"}, q \in SUBSET {"P"}}

\* The request data of the model: any of "environment", "parameters" and
\* "image" may be missing.
Requests ==
  {[k \in has |->
      CASE k = "environment" -> Dict(e, "request")
        [] k = "parameters" -> Dict(q, "request")
        [] k = "image" -> "request"] :
     has \in SUBSET {"environment", "parameters", "image"},
     e \in SUBSET {"ETOS_ENVIRONMENT_PROVIDER", "K", "SUB_SUITE_URL"},
     q \in SUBSET {"P"}}

InitInstructions ==
  /\ ProgramIdle /\ RegistryIdle
  /\ datasubset \in Templates
  /\ data \in Requests
  /\ executed = <<>>

\* one call of Instructions.execute
Execute ==
  /\ Len(executed) < MaxExecutes
  /\ LET got == execute(datasubset, data, fresh)
     IN /\ executed' = Append(executed, got)
        /\ datasubset' =
             [datasubset EXCEPT
                !.instructions = TemplateAfter(@, got.instructions)]
  /\ fresh' = fresh + 1
  /\ UNCHANGED <<program, lib_registry, data>>

NextInstructions == Execute

SpecInstructions == InitInstructions /\ [][NextInstructions]_vars


\* ============================================================== claims
Count(seq, x) == Cardinality({i \in 1..Len(seq) : seq[i] = x})

TestsOf(suite) == {suite.tests[j] : j \in 1..Len(suite.tests)}

AllTests == UNION {TestsOf(suites[s]) : s \in 1..Len(suites)}

\* the tests the testrun holds for the suite called name
InputTests(name) ==
  UNION {TestsOf(suites[s]) : s \in {x \in 1..Len(suites) : suites[x].name = name}}

SubSuitesOf(k) == {i \in 1..Len(sub_suites) : sub_suites[i].suite = k}

\* the places (sub suite, position) where test t stands among suite k's sub suites
Places(t, k) ==
  UNION {{<<i, j>> : j \in {x \in 1..Len(sub_suites[i].recipes) :
                              sub_suites[i].recipes[x] = t}} :
           i \in SubSuitesOf(k)}

RecipeSlots(k) ==
  UNION {{<<i, j>> : j \in 1..Len(sub_suites[i].recipes)} : i \in SubSuitesOf(k)}

EventCount(type, k) ==
  Cardinality({i \in 1..Len(events) : events[i].type = type /\ events[i].suite = k})

\* _run has entered the body of its loop for the k-th suite
Started(k) ==
  /\ k \in 1..Len(test_suites)
  /\ k < suite_idx \/ (k = suite_idx /\ pc # "suite")

\* ... and has left it, normally or by an exception
Ended(k) ==
  /\ Started(k)
  /\ k < suite_idx \/ pc \in {"except", "done"}

\* checkout of the k-th suite returned without an exception
CheckedOut(k) ==
  /\ k \in 1..Len(test_suites)
  /\ k < suite_idx \/ (k = suite_idx /\ pc = "finally" /\ error = NoError)

\* no IUT has been assigned in the checkout of the current suite
NothingAssigned ==
  /\ suite_idx \in 1..Len(test_suites)
  /\ test_runners = test_suites[suite_idx].test_runners
  /\ SubSuitesOf(suite_idx) = {}

CheckoutOps == {"checkout_iuts", "checkout_execution_space", "checkout_log_area"}

\* C1: when checkout of a suite has completed successfully, every test the
\* testrun holds for that suite stands in exactly one place of the suite's
\* sub suites, the sub suites hold nothing else, and all are announced.
C1_RecipeConservation ==
  \A k \in 1..Len(test_suites) :
    CheckedOut(k) =>
      /\ \A t \in AllTests :
           Cardinality(Places(t, k)) =
             IF t \in InputTests(test_suites[k].name) THEN 1 ELSE 0
      /\ Cardinality(RecipeSlots(k)) = Cardinality(InputTests(test_suites[k].name))
      /\ \A i \in SubSuitesOf(k) : sub_suites[i].announced

C1_Witness ==
  /\ pc = "done" /\ result.error = NoError
  /\ Len(sub_suites) >= 2
  /\ \E i \in 1..Len(sub_suites) : Len(sub_suites[i].recipes) >= 2

\* C2: when run() returns a failure, every provider instance created during
\* the run has received exactly one checkin_all.
C2_CleanupAllInstantiated ==
  (pc = "done" /\ result.error # NoError) =>
    \A p \in created : Count(checkins, p.id) = 1

C4_DeadlineRespected ==
  (pc = "finally" /\ error = "CheckoutTimeout" /\ NothingAssigned) =>
    now <= checkout_timeout

\* C4 amended: no loop iteration (IUT request) begins at or after the
\* aggregate deadline; the checkout timeout is raised at the first iteration
\* boundary at or after the deadline, so with an IUT provider that never
\* delivers the loop has run for less than the aggregate timeout plus one
\* iteration (one IUT wait and one sleep).
C4_DeadlineAtIterationBoundary ==
  /\ iut_request.suite # None => iut_request.at < checkout_timeout
  /\ (pc = "finally" /\ error = "CheckoutTimeout") =>
       /\ now >= checkout_timeout
       /\ NothingAssigned =>
            now < checkout_timeout + WAIT_FOR_IUT_TIMEOUT + CHECKOUT_SLEEP

C4_Witness ==
  /\ pc = "finally" /\ error = "CheckoutTimeout" /\ NothingAssigned
  /\ now > checkout_timeout

\* the (test runner, IUT) pairs that have been given a sub_suite_id
AssignedPairs ==
  {[suite |-> sub_suites[i].suite, test_runner |-> sub_suites[i].test_runner,
    iut |-> sub_suites[i].iut, id |-> sub_suites[i].sub_suite_id] :
     i \in 1..Len(sub_suites)}
  \cup UNION {{[suite |-> suite_idx, test_runner |-> test_runners[g].docker,
                iut |-> test_runners[g].iuts[i].iut,
                id |-> test_runners[g].iuts[i].suite.sub_suite_id] :
                 i \in {x \in 1..Len(test_runners[g].iuts) :
                          test_runners[g].iuts[x].suite.sub_suite_id # None}} :
               g \in 1..Len(test_runners)}

\* C5: no two (test runner, IUT) pairs of one run, in the same or different
\* iterations or suites, have the same sub_suite_id.
C5_UniqueSubSuiteIds ==
  \A a, b \in AssignedPairs : a.id = b.id => a = b

C5_Witness ==
  /\ \E i, j \in 1..Len(sub_suites) :
       i # j /\ sub_suites[i].suite = sub_suites[j].suite
  /\ \E i, j \in 1..Len(sub_suites) : sub_suites[i].suite # sub_suites[j].suite

\* every suite of the testrun was checked out
AllCheckedOut ==
  /\ test_suites = create_test_suite_dict(suites)
  /\ \A k \in 1..Len(test_suites) : CheckedOut(k)

\* cleanup has checked in every registered provider
CleanupRan == \A i \in 1..Len(PROVIDERS) : Count(checkins, PROVIDERS[i]) = 1

FinishedUnsuccessful(k) ==
  [type |-> "finished", suite |-> k, conclusion |-> "UNSUCCESSFUL",
   description |-> error]

C7_FailFast ==
  [][error # NoError =>
       /\ suite_idx' = suite_idx
       /\ oplog' = oplog
       /\ created' = created
       /\ iut_request' = iut_request
       /\ sub_suites' = sub_suites
       /\ \/ events' = events
          \/ events' = Append(events, FinishedUnsuccessful(suite_idx))]_vars

C7_Witness ==
  /\ pc = "done" /\ result.error # NoError
  /\ suite_idx = 1 /\ Len(test_suites) = 2
  /\ triggered # None

\* C8: a checkout has been requested only if the registry reported itself
\* configured before; a run whose registry never reported configured (and
\* whose controller-side configuration did not fail) ends with the
\* not-configured error, and a not-configured run has requested no checkout
\* and created no provider.
C8_NoCheckoutBeforeConfigured ==
  /\ (\E o \in oplog : o.op \in CheckoutOps \cup {"new_dataset"}) =>
       [op |-> "configured", suite |-> 0] \in oplog
  /\ (pc = "done" /\ [op |-> "configured", suite |-> 0] \notin oplog
        /\ result.error # "ConfigureFailed") =>
       result.error = "NotConfigured"
  /\ error = "NotConfigured" =>
       /\ \A o \in oplog : o.op \notin CheckoutOps
       /\ created = {}

C8_Witness ==
  /\ [op |-> "configured", suite |-> 0] \in oplog
  /\ [op |-> "checkout_log_area", suite |-> 1] \in oplog

InSuiteBody ==
  pc \in {"trigger", "checkout", "loop", "runner", "resources", "add",
          "remove", "finally"}

\* C9: as controller the main suite is never requested; otherwise a suite
\* gets past the main suite wait without a main suite only by the timeout
\* error, which is raised no earlier than 30 units into the wait and leaves
\* the suite without lifecycle signal, provider, checkout or sub suite.
C9_MainSuiteTimeout ==
  /\ etos_controller => \A o \in oplog : o.op # "request_main_suite"
  /\ (~etos_controller /\ InSuiteBody /\ main_suite = None) =>
       error = "MainSuiteTimeout"
  /\ error = "MainSuiteTimeout" =>
       /\ ~etos_controller
       /\ now >= MAIN_SUITE_TIMEOUT
       /\ \A o \in oplog : o.suite = suite_idx => o.op = "request_main_suite"
       /\ \A p \in created : p.suite # suite_idx
       /\ \A i \in 1..Len(events) : events[i].suite # suite_idx
       /\ SubSuitesOf(suite_idx) = {}
       /\ iut_request.suite # suite_idx

C9_Witness ==
  /\ pc = "done" /\ result.error = "MainSuiteTimeout"
  /\ suite_idx = 2

\* C10: every IUT request has minimum 1 and maximum min(unassigned recipes,
\* ETOS_MAX_PARALLEL_IUTS when set).
C10_IutRequestBounds ==
  iut_request.suite # None =>
    /\ iut_request.minimum_amount = 1
    /\ iut_request.maximum_amount =
         IF env_max # None THEN Min(iut_request.total, env_max)
         ELSE iut_request.total
    /\ iut_request.maximum_amount <= iut_request.total

\* the sub suites bound to execution space x, and to log area x
BoundToExecutor(x) == {i \in 1..Len(sub_suites) : sub_suites[i].executor = x}

BoundToLogArea(x) == {i \in 1..Len(sub_suites) : sub_suites[i].log_area = x}

\* the requests of a kind that were answered with instance x
Answered(kind, x) ==
  {r \in resource_requests : r.kind = kind /\ r.returned = x}

\* C11: every sub suite has one execution space and one log area, each the
\* answer to exactly one request (for the sub suite's IUT, minimum 1 and
\* maximum 1), and no execution space or log area is bound to two sub suites.
C11_OneSpaceOneAreaEach ==
  /\ \A r \in resource_requests : r.minimum_amount = 1 /\ r.maximum_amount = 1
  /\ \A i \in 1..Len(sub_suites) :
       LET s == sub_suites[i]
       IN /\ s.executor # None /\ s.log_area # None
          /\ BoundToExecutor(s.executor) = {i}
          /\ BoundToLogArea(s.log_area) = {i}
          /\ Cardinality(Answered("execution_space", s.executor)) = 1
          /\ Cardinality(Answered("log_area", s.log_area)) = 1
          /\ \A r \in Answered("execution_space", s.executor)
                       \cup Answered("log_area", s.log_area) :
               r.iut = s.iut /\ r.suite = s.suite

C11_Witness ==
  /\ pc = "done" /\ result.error = NoError
  /\ Len(sub_suites) >= 3
  /\ Cardinality(resource_requests) >= 6

\* C12: every execution space and log area request is made for an IUT the
\* splitter assigned to a group after the IUT checkout of the same loop
\* iteration; no group carries an IUT over an iteration boundary, and the
\* groups served have an IUT.
C12_IutsBeforeResources ==
  /\ \A r \in resource_requests :
       /\ r.just_assigned
       /\ [op |-> "checkout_iuts", suite |-> r.suite] \in oplog
  /\ iteration.assigned \subseteq {iteration.returned[k] :
                                     k \in 1..Len(iteration.returned)}
  /\ pc = "loop" =>
       \A g \in 1..Len(test_runners) : test_runners[g].iuts = <<>>
  /\ pc \in {"resources", "add"} =>
       /\ test_runners[r_idx].iuts # <<>>
       /\ \A i \in 1..Len(test_runners[r_idx].iuts) :
            test_runners[r_idx].iuts[i].iut \in iteration.assigned

C12_Witness ==
  /\ pc = "resources" /\ i_idx = 1
  /\ test_runners[r_idx].iuts[1].iut \in iteration.assigned
  /\ \E r \in resource_requests :
       r.suite = suite_idx /\ r.iut \notin iteration.assigned

\* the sub suites of the group of test runner r in the k-th suite
GroupSubSuites(k, r) ==
  {i \in 1..Len(sub_suites) :
     sub_suites[i].suite = k /\ sub_suites[i].test_runner = r}

\* C13: a group's sub suites are announced only when the group has been
\* split, and outside the announcement loop itself either none or all of a
\* group's sub suites are announced.
C13_AllOrNoneAnnounced ==
  /\ pc = "add" => test_runners[r_idx].unsplit_recipes = <<>>
  /\ pc # "add" =>
       \A k \in 1..Len(test_suites), r \in Runners :
         \/ \A i \in GroupSubSuites(k, r) : sub_suites[i].announced
         \/ \A i \in GroupSubSuites(k, r) : ~sub_suites[i].announced

\* the groups the step removes from the working set
Removed ==
  {g \in 1..Len(test_runners) :
     \A h \in 1..Len(test_runners') :
       test_runners'[h].docker # test_runners[g].docker}

\* C14: at the end of a loop iteration whose IUT checkout returned at least
\* one IUT, at least one group leaves the working set, and every group that
\* leaves is fully split with all its sub suites announced; the working set
\* is left as it was only when no IUT was returned.
C14_PartialProgress ==
  [][(pc = "remove" /\ test_runners # <<>>) =>
       /\ iteration.returned # <<>> => Len(test_runners') < Len(test_runners)
       /\ test_runners' = test_runners => iteration.returned = <<>>
       /\ \A g \in Removed :
            /\ test_runners[g].unsplit_recipes = <<>>
            /\ test_runners[g].iuts # <<>>
            /\ \A i \in 1..Len(test_runners[g].iuts) :
                 \E j \in 1..Len(sub_suites) :
                   /\ sub_suites[j].sub_suite_id =
                        test_runners[g].iuts[i].suite.sub_suite_id
                   /\ sub_suites[j].announced]_vars

C14_Witness ==
  /\ pc = "loop" /\ now > 0
  /\ Len(iteration.returned) = 1
  /\ SumLen(test_suites[suite_idx].test_runners) > 1
  /\ SubSuitesOf(suite_idx) # {}
  /\ test_runners # <<>>

\* C15: checkout has returned only with an empty working set, the loop is
\* entered again only with groups remaining, the checkout timeout is raised
\* only at an iteration boundary at or after the deadline with groups
\* remaining, and never in the middle of an iteration.
C15_LoopExit ==
  /\ (pc = "finally" /\ error = NoError) => test_runners = <<>>
  /\ (pc = "loop" /\ now > 0) => test_runners # <<>>
  /\ error = "CheckoutTimeout" => test_runners # <<>> /\ now >= timeout
  /\ pc \in {"runner", "resources", "add", "remove"} => error = NoError

C15_Witness ==
  /\ pc = "finally" /\ error = NoError
  /\ timeout = checkout_timeout /\ now > timeout
  /\ SubSuitesOf(suite_idx) # {}

\* the IUTs the splitter gave the group of test runner r in the current suite
AssignedTo(r) ==
  {a \in assigned : a.suite = suite_idx /\ a.test_runner = r}

InWorkingSet(r) == \E h \in 1..Len(test_runners) : test_runners[h].docker = r

\* an iteration of the current suite's loop has just ended
IterationEnded ==
  /\ suite_idx \in 1..Len(test_suites)
  /\ error = NoError
  /\ pc = "finally" \/ (pc = "loop" /\ now > 0)

\* C16 as claimed: after an iteration, a group that was assigned fewer IUTs
\* than it has recipes (and at least one) is still in the working set with
\* recipes unsplit.
C16_PartialGroupKept ==
  IterationEnded =>
    \A g \in 1..Len(test_suites[suite_idx].test_runners) :
      LET grp == test_suites[suite_idx].test_runners[g]
          k == Cardinality(AssignedTo(grp.docker))
      IN (0 < k /\ k < Len(grp.unsplit_recipes)) =>
           \E h \in 1..Len(test_runners) :
             /\ test_runners[h].docker = grp.docker
             /\ test_runners[h].unsplit_recipes # <<>>

\* C16 amended: after an iteration, a group that was assigned no IUT is in
\* the working set with all its recipes unsplit; a group that was assigned
\* k >= 1 IUTs has left the working set, all its recipes split over k sub
\* suites, also when k is less than the number of its recipes.
C16_AssignedGroupSplitWhole ==
  IterationEnded =>
    \A g \in 1..Len(test_suites[suite_idx].test_runners) :
      LET grp == test_suites[suite_idx].test_runners[g]
          k == Cardinality(AssignedTo(grp.docker))
          subs == GroupSubSuites(suite_idx, grp.docker)
      IN IF k = 0
         THEN \E h \in 1..Len(test_runners) :
                /\ test_runners[h].docker = grp.docker
                /\ test_runners[h].unsplit_recipes = grp.unsplit_recipes
                /\ test_runners[h].iuts = <<>>
         ELSE /\ ~InWorkingSet(grp.docker)
              /\ Cardinality(subs) = k
              /\ \A t \in 1..Len(grp.unsplit_recipes) :
                   \E i \in subs :
                     \E j \in 1..Len(sub_suites[i].recipes) :
                       sub_suites[i].recipes[j] = grp.unsplit_recipes[t]

C16_Witness ==
  /\ IterationEnded
  /\ \E g \in 1..Len(test_suites[suite_idx].test_runners) :
       LET grp == test_suites[suite_idx].test_runners[g]
       IN /\ Cardinality(AssignedTo(grp.docker)) = 1
          /\ Len(grp.unsplit_recipes) = 2
          /\ ~InWorkingSet(grp.docker)

PairOf(s) == [suite |-> s.suite, test_runner |-> s.test_runner, iut |-> s.iut]

\* C17: add is called for pairs the splitter produced only, never twice for
\* one pair, and once checkout of a suite has succeeded, for every pair the
\* splitter produced for it.
C17_AddOncePerPair ==
  /\ \A i, j \in 1..Len(sub_suites) :
       PairOf(sub_suites[i]) = PairOf(sub_suites[j]) => i = j
  /\ \A i \in 1..Len(sub_suites) : PairOf(sub_suites[i]) \in assigned
  /\ \A a \in assigned :
       CheckedOut(a.suite) =>
         \E i \in 1..Len(sub_suites) : PairOf(sub_suites[i]) = a

C17_Witness ==
  /\ pc = "done" /\ result.error = NoError
  /\ Cardinality(assigned) >= 3
  /\ Len(sub_suites) = Cardinality(assigned)

\* new_dataset has loaded the providers of the current suite
ProvidersLoaded ==
  /\ [op |-> "new_dataset", suite |-> suite_idx] \in oplog
  /\ pc # "checkout"

\* C18: a provider kind without configuration gives None and registers
\* nothing; the suite's checkout then fails: nothing is checked out, no sub
\* suite is made, and run() returns a failure after cleanup and an
\* UNSUCCESSFUL activity finished.
C18_ProviderUnavailable ==
  /\ \A i \in 1..Len(PROVIDERS) : PROVIDERS[i] # None
  /\ ProvidersLoaded =>
       /\ "iut" \notin store => iut_provider = None
       /\ "log-area" \notin store => log_area_provider = None
       /\ "execution-space" \notin store => execution_space_provider = None
       /\ Len(PROVIDERS) = Cardinality(store \cap ProviderKinds)
       /\ (iut_provider = None \/ log_area_provider = None
             \/ execution_space_provider = None) =>
            /\ error = "AttributeError"
            /\ ~CheckedOut(suite_idx)
            /\ SubSuitesOf(suite_idx) = {}
            /\ \A o \in oplog : o.suite = suite_idx => o.op \notin CheckoutOps
            /\ pc = "done" =>
                 /\ result.error = "AttributeError"
                 /\ CleanupRan
                 /\ events[Len(events)] = FinishedUnsuccessful(suite_idx)

C18_Witness ==
  /\ pc = "done" /\ result.error = "AttributeError"
  /\ log_area_provider = None /\ iut_provider # None
  /\ Len(checkins) = 2

\* the provider instances created in the current checkout session
Session == {c.id : c \in {x \in created : x.suite = suite_idx}}

\* C19: once a session's providers are loaded, the active provider list
\* holds exactly the instances created in that session, one per provider
\* kind at most, each once, and none created in another session.
C19_ProvidersPerSession ==
  ProvidersLoaded =>
    /\ \A i, j \in 1..Len(PROVIDERS) : PROVIDERS[i] = PROVIDERS[j] => i = j
    /\ {PROVIDERS[i] : i \in 1..Len(PROVIDERS)} = Session
    /\ Session =
         {iut_provider, log_area_provider, execution_space_provider} \ {None}
    /\ Len(PROVIDERS) <= Cardinality(ProviderKinds)
    /\ (iut_provider # None /\ log_area_provider # None
          /\ execution_space_provider # None) =>
         Cardinality(Session) = Cardinality(ProviderKinds)
    /\ \A c \in created :
         c.suite # suite_idx => \A i \in 1..Len(PROVIDERS) : PROVIDERS[i] # c.id

C19_Witness ==
  /\ ProvidersLoaded /\ suite_idx = 2
  /\ Len(PROVIDERS) = 3
  /\ Cardinality(created) = 6

\* C20: a stored provider configuration that violates the schema is never
\* accepted: the registry never reports configured, no provider is created
\* from it, and the run ends with the not-configured error.
C20_InvalidConfigRejected ==
  (store # {} /\ ~store_valid) =>
    /\ [op |-> "configured", suite |-> 0] \notin oplog
    /\ created = {}
    /\ pc = "done" => result.error = "NotConfigured"

\* the run has failed and cleanup met a check-in error
CheckinFailed == pc = "done" /\ checkin_errors # {}

\* C24: a check-in error neither escapes cleanup nor cuts it short: when
\* checkin_all of some registered providers raises, checkin_all has still
\* been called once on every registered provider, run() returns its
\* result, and the error of the result is the error that made the run
\* fail, which _run recorded before cleanup began.
C24_CleanupSwallowsCheckinErrors ==
  checkin_errors # {} =>
    /\ pc = "done" /\ result.returned
    /\ \A i \in 1..Len(PROVIDERS) : Count(checkins, PROVIDERS[i]) = 1
    /\ Len(checkins) = Len(PROVIDERS)
    /\ result.error = error /\ error # NoError

\* the first of three registered providers raised, the others were still
\* checked in
C24_Witness ==
  /\ CheckinFailed
  /\ Len(PROVIDERS) = 3 /\ PROVIDERS[1] \in checkin_errors
  /\ checkins = PROVIDERS
  /\ result.error = "CheckoutTimeout"

\* checkout has been called for the suite at hand
CheckoutCalled == [op |-> "new_dataset", suite |-> suite_idx] \in oplog

\* the run got as far as _run with a list of datasets of another length
\* than the test suite dictionary
ListMismatch ==
  /\ StoredDatasets.is_list
  /\ Len(StoredDatasets.items) # Len(create_test_suite_dict(suites))

C25_UnserializableNeverAnnounced ==
  \A i \in 1..Len(sub_suites) :
    ~sub_suites[i].serializable =>
      /\ ~sub_suites[i].event_sent /\ ~sub_suites[i].announced
      /\ error = "TypeError"

\* the loop turn at hand got no IUT although recipes are waiting
ZeroIutIteration ==
  /\ pc \in {"runner", "remove"}
  /\ iteration.returned = <<>>
  /\ test_runners # <<>>

\* C26: in a loop turn whose IUT checkout gave no IUT (recipes still
\* waiting), every step leaves the working set, the sub suites, the
\* execution space and log area requests and the lifecycle signals as they
\* are and raises nothing; the turn ends with the sleep of the fixed
\* interval and the loop going round again.
C26_ZeroIutsRetried ==
  [][ZeroIutIteration =>
       /\ test_runners' = test_runners
       /\ sub_suites' = sub_suites
       /\ resource_requests' = resource_requests
       /\ oplog' = oplog /\ events' = events
       /\ error = NoError /\ error' = NoError
       /\ IF pc = "remove"
          THEN pc' = "loop" /\ now' = now + CHECKOUT_SLEEP
          ELSE pc' \in {"runner", "remove"} /\ now' = now]_vars

\* a suite of one recipe checked out without error by a request made after
\* two sleeps: the turns before it got no IUT
C26_Witness ==
  /\ pc = "finally" /\ error = NoError
  /\ suite_idx \in 1..Len(test_suites)
  /\ SumLen(test_suites[suite_idx].test_runners) = 1
  /\ iut_request.suite = suite_idx
  /\ iut_request.at = CHECKOUT_SLEEP + CHECKOUT_SLEEP
  /\ \E i \in SubSuitesOf(suite_idx) : sub_suites[i].announced

\* the position of a lifecycle event in the life of an activity
Rank(type) == CASE type = "triggered" -> 1 [] type = "started" -> 2
                []  type = "finished" -> 3

\* where the lifecycle events of the k-th suite stand in the events sent
EventsOf(k) == {i \in 1..Len(events) : events[i].suite = k}

\* what has been asked of the providers for the k-th suite
RequestsOf(k) ==
  <<{o \in oplog : o.suite = k /\ o.op \in CheckoutOps \cup {"new_dataset"}},
    {r \in resource_requests : r.suite = k}>>

LifecycleOrder ==
  \A k \in 1..Len(test_suites) :
    /\ \A i, j \in EventsOf(k) :
         i < j => Rank(events[i].type) < Rank(events[j].type)
    /\ {Rank(events[i].type) : i \in EventsOf(k)} \in {{}, {1, 2}, {1, 2, 3}}
    /\ RequestsOf(k) # <<{}, {}>> => EventCount("started", k) = 1
    /\ iut_request.suite = k => EventCount("started", k) = 1
    /\ \A i \in EventsOf(k) :
         events[i].type = "finished" =>
           /\ events[i].conclusion = "SUCCESSFUL" <=> CheckedOut(k)
           /\ events[i].conclusion = "SUCCESSFUL" =>
                events[i].description = NoError
           /\ events[i].conclusion # "SUCCESSFUL" =>
                /\ events[i].conclusion = "UNSUCCESSFUL"
                /\ k = suite_idx /\ error # NoError
                /\ events[i].description = error

\* C27: the lifecycle signals of a suite are sent in the order triggered,
\* started, finished; a provider is asked for something for the suite only
\* after its activity started and never after its activity finished; the
\* finished outcome is SUCCESSFUL exactly when the suite's checkout returned
\* without error, and UNSUCCESSFUL with the description of the error
\* otherwise.
C27_LifecycleOrder ==
  [][/\ LifecycleOrder'
     /\ \A k \in 1..Len(test_suites) :
          EventCount("finished", k) > 0 =>
            /\ RequestsOf(k)' = RequestsOf(k)
            /\ iut_request' = iut_request \/ iut_request'.suite # k]_vars

\* the first suite finished SUCCESSFUL after its checkout, the second
\* UNSUCCESSFUL after a request of its own
C27_Witness ==
  /\ pc = "done" /\ Len(test_suites) = 2 /\ suite_idx = 2
  /\ Len(events) = 6
  /\ events[3].conclusion = "SUCCESSFUL"
  /\ events[6] = FinishedUnsuccessful(2)
  /\ events[6].description = "LogAreaCheckoutFailed"
  /\ RequestsOf(1)[2] # {} /\ RequestsOf(2)[2] # {}
  /\ iut_request.suite = 2

\* where a test stands in the test suite dictionary: (entry, group, position)
PlacesInDict(test) ==
  {<<e, g, x>> \in (1..Len(test_suites)) \X (1..Cardinality(Runners))
                     \X (1..(MaxTests * Len(suites))) :
     /\ g <= Len(test_suites[e].test_runners)
     /\ x <= Len(test_suites[e].test_runners[g].unsplit_recipes)
     /\ test_suites[e].test_runners[g].unsplit_recipes[x] = test}

PlaceInDict(test) == CHOOSE pl \in PlacesInDict(test) : TRUE

\* the suites of the testrun that put a test into the group of runner r of
\* the entry named n
Contributors(n, r) ==
  {s \in 1..Len(suites) :
     /\ suites[s].name = n
     /\ \E j \in 1..Len(suites[s].tests) : suites[s].tests[j].testRunner = r}

\* Every test of every suite stands exactly once in the dictionary, in the
\* entry of its suite's name and the group of its own runner, two tests of
\* one suite and runner in the order of the suite; the groups hold nothing
\* else, none is empty, no entry has two groups of one runner.
PartitionedByRunner ==
  /\ \A s \in 1..Len(suites) : \A j \in 1..Len(suites[s].tests) :
       LET test == suites[s].tests[j]
       IN /\ Cardinality(PlacesInDict(test)) = 1
          /\ test_suites[PlaceInDict(test)[1]].name = suites[s].name
          /\ test_suites[PlaceInDict(test)[1]].test_runners[PlaceInDict(test)[2]].docker
               = test.testRunner
          /\ \A i \in 1..(j - 1) :
               suites[s].tests[i].testRunner = test.testRunner =>
                 PlaceInDict(suites[s].tests[i])[3] < PlaceInDict(test)[3]
  /\ \A e \in 1..Len(test_suites) :
       LET groups == test_suites[e].test_runners
       IN /\ \A g \in 1..Len(groups) :
               /\ groups[g].unsplit_recipes # <<>>
               /\ Range(groups[g].unsplit_recipes) \subseteq AllTests
          /\ \A g, h \in 1..Len(groups) :
               groups[g].docker = groups[h].docker => g = h

\* create_test_suite_dict has just returned the dictionary (_run never
\* assigns test_suites again)
DictBuilt ==
  /\ test_suites # <<>>
  /\ (pc = "suite" /\ suite_idx = 1) \/ (pc = "except" /\ suite_idx = 0)

\* C29 as claimed: partitioned by runner as above, and the group a test
\* stands in has the priority of the test's suite.
C29_PartitionWithSuitePriority ==
  DictBuilt =>
    /\ PartitionedByRunner
    /\ \A s \in 1..Len(suites) : \A j \in 1..Len(suites[s].tests) :
         LET pl == PlaceInDict(suites[s].tests[j])
         IN test_suites[pl[1]].test_runners[pl[2]].priority = suites[s].priority

\* C29 amended: partitioned by runner as above; a group has the priority of
\* the first suite of the testrun, among the suites of its entry's name,
\* that has a test on its runner (the suite's own priority when no other
\* suite has its name).
C29_PartitionWithFirstPriority ==
  DictBuilt =>
    /\ PartitionedByRunner
    /\ \A e \in 1..Len(test_suites) :
         \A g \in 1..Len(test_suites[e].test_runners) :
           LET group == test_suites[e].test_runners[g]
               from == Contributors(test_suites[e].name, group.docker)
           IN /\ from # {}
              /\ group.priority =
                   suites[CHOOSE s \in from : \A o \in from : s <= o].priority

\* two suites of one name and different priorities share the group of one
\* runner, which holds a test of each
C29_Witness ==
  /\ DictBuilt /\ Len(suites) = 2
  /\ suites[1].name = suites[2].name /\ suites[1].priority # suites[2].priority
  /\ Contributors(suites[1].name, "r2") = {1, 2}
  /\ Len(test_suites[1].test_runners) = 2
  /\ Len(test_suites[1].test_runners[2].unsplit_recipes) = 2

\* C28: every run() comes to its return, with a success or a failure
\* result; so the configuration wait, the main suite wait and the checkout
\* loop each end.
C28_Terminates == <>(pc = "done" /\ result.returned)

\* run() has returned after the configuration and the main suite were
\* waited for and the checkout loop ran into its deadline
C28_Witness ==
  /\ pc = "done" /\ result.error = "CheckoutTimeout"
  /\ ~etos_controller
  /\ now >= checkout_timeout
  /\ [op |-> "request_main_suite", suite |-> 1] \in oplog

\* what the registry is to find for "configured": with a testrun id an
\* entry below /testrun/{id}/provider, without one a default provider of
\* each of the three kinds
Configured(id, db) ==
  IF id # None
  THEN \E path \in db :
         /\ Len(path) > 3 /\ path[1] = "testrun"
         /\ path[2] = id /\ path[3] = "provider"
  ELSE \A kind \in {"execution-space", "iut", "log-area"} :
         <<"environment", "provider", kind, "default">> \in db

\* the polls wait_for_configuration has made
Polls == call.outcomes

\* C21: every poll of wait_for_configuration reports what is_configured
\* is to report of the database at that time (with a testrun id: some entry
\* under /testrun/{id}/provider; without: a default provider of each of
\* the three kinds); a poll that reports configured is the last one and
\* makes the call return true at once; the call returns false only after
\* all its polls, none of which reported configured.
C21_WaitForConfiguration ==
  call.op = "wait_for_configuration" =>
    /\ \A i \in 1..(Len(Polls) - 1) : ~Polls[i]
    /\ Polls # <<>> =>
         /\ Polls[Len(Polls)] <=> Configured(registry.suite_id, etcd)
         /\ Polls[Len(Polls)] => call.done /\ call.result = "True"
    /\ call.done =>
         /\ Polls # <<>>
         /\ call.result = "True" <=> Polls[Len(Polls)]
         /\ call.result # "True" =>
              /\ call.result = "False"
              /\ Len(Polls) = MaxConfigPolls
              /\ \A i \in 1..Len(Polls) : ~Polls[i]

\* without a testrun id, the call returned true at its second poll, when
\* the last of the three defaults had been written
C21_Witness ==
  /\ call.op = "wait_for_configuration" /\ call.done
  /\ registry.suite_id = None
  /\ call.result = "True" /\ Polls = <<FALSE, TRUE>>
  /\ \A kind \in ProviderKinds : DefaultKey(kind) \in etcd
  /\ read_all(etcd, TestrunKey(TestrunId)) = {}

\* C22 as claimed: for a known kind the registry reads the testrun's path
\* of that kind when it has a testrun identifier, and otherwise the path of
\* the provider id the request names for that kind under
\* /environment/provider/{kind}; it returns the entry there, or None; an
\* unknown kind raises without a read.
C22_ProviderResolution ==
  call.op = "_get_provider" =>
    IF call.kind \notin ProviderKinds
    THEN call.raised = "ValueError" /\ call.reads = {}
    ELSE LET key == IF registry.suite_id # None
                    THEN <<"testrun", registry.suite_id, "provider", call.kind>>
                    ELSE <<"environment", "provider", call.kind,
                           registry.providers[call.kind]>>
         IN /\ call.raised = NoError
            /\ call.reads = {key}
            /\ call.entry = IF key \in etcd THEN key ELSE <<>>

\* what a dict built from the template's and the request's is to hold at
\* a key
Merged(name, k) ==
  IF name \in DOMAIN data /\ k \in DOMAIN data[name]
  THEN data[name][k] ELSE datasubset.instructions[name][k]

MergedKeys(name) ==
  DOMAIN datasubset.instructions[name]
  \cup (IF name \in DOMAIN data THEN DOMAIN data[name] ELSE {})

\* C30: a call of execute leaves the template in the data subset as it was;
\* when it returns, the environment and the parameters of the instructions
\* hold, at every key of the template or of the request data, the request's
\* value where the request has one and the template's otherwise (but for
\* SUB_SUITE_URL), the image is the request's if it has one and the
\* template's otherwise, the identifier is none an earlier call gave, and
\* SUB_SUITE_URL is the URL of ETOS_ENVIRONMENT_PROVIDER ending with that
\* identifier.
C30_ExecuteBuildsCopy ==
  [][executed' # executed =>
       LET got == executed'[Len(executed')]
           built == got.instructions
       IN /\ datasubset' = datasubset
          /\ got.raised = NoError =>
               /\ DOMAIN built.environment =
                    MergedKeys("environment") \cup {"SUB_SUITE_URL"}
               /\ \A k \in MergedKeys("environment") \ {"SUB_SUITE_URL"} :
                    built.environment[k] = Merged("environment", k)
               /\ DOMAIN built.parameters = MergedKeys("parameters")
               /\ \A k \in MergedKeys("parameters") :
                    built.parameters[k] = Merged("parameters", k)
               /\ built.image = IF "image" \in DOMAIN data THEN data.image
                                ELSE datasubset.instructions.image
               /\ \A i \in 1..Len(executed) :
                    executed[i].identifier # built.identifier
               /\ built.environment["SUB_SUITE_URL"] =
                    <<Merged("environment", "ETOS_ENVIRONMENT_PROVIDER"),
                      "/sub_suite?id=", built.identifier>>]_vars

\* two calls have returned; the request overrides the template's K and its
\* image and adds a parameter, the provider's address is the template's
C30_Witness ==
  /\ Len(executed) = 2
  /\ executed[1].raised = NoError /\ executed[2].raised = NoError
  /\ DOMAIN data = {"environment", "parameters", "image"}
  /\ DOMAIN data.environment = {"K"} /\ DOMAIN data.parameters = {"P"}
  /\ DOMAIN datasubset.instructions.environment = {"ETOS_ENVIRONMENT_PROVIDER", "K"}
  /\ executed[2].instructions.environment["K"] = <<"request", "K">>
  /\ executed[2].instructions.environment["SUB_SUITE_URL"][3] = executed[2].identifier

\* ------------------------------------------------ the IUT request, check-in
\* the loop condition holds: the next step of checkout is the IUT request
IutRequestDue == pc = "loop" /\ LoopContinues(now, timeout)

\* C31: whenever the engine issues an IUT request, the working set holds a
\* test runner group with at least one unsplit recipe, and the request's
\* maximum is at least its minimum of 1; also in the first iteration and
\* for a test suite without tests.
C31_IutRequestHasDemand ==
  IutRequestDue =>
    /\ \E g \in 1..Len(test_runners) : test_runners[g].unsplit_recipes # <<>>
    /\ IutRequest.minimum_amount = 1
    /\ IutRequest.maximum_amount >= IutRequest.minimum_amount

\* checkin_all was called on provider instance p
CheckedIn(p) == Count(checkins, p) > 0

\* C32: checkin_all is called only when run() fails.  When every test
\* suite has been checked out, run() returns success and no provider
\* instance created during the run was checked in: what they handed out
\* is still held.
C32_CheckinOnlyOnFailure ==
  /\ checkins # <<>> => (pc = "done" /\ result.returned /\ result.error # NoError)
  /\ (pc = "done" /\ AllCheckedOut) =>
       /\ result.returned /\ result.error = NoError
       /\ \A p \in created : ~CheckedIn(p.id)
       /\ \A i \in 1..Len(PROVIDERS) : ~CheckedIn(PROVIDERS[i])

\* run() has returned success for two suites, each with its own three
\* providers, and sub suites hold IUTs, execution spaces and log areas
C32_Witness ==
  /\ pc = "done" /\ AllCheckedOut
  /\ Len(test_suites) = 2
  /\ Cardinality(created) = 6
  /\ \E i, j \in 1..Len(sub_suites) : sub_suites[i].suite # sub_suites[j].suite
  /\ \A i \in 1..Len(sub_suites) :
       sub_suites[i].executor # None /\ sub_suites[i].log_area # None

====
